---- MODULE Spec2Model ----
(***************************************************************************)
(* Hybrid retrieval and reranking pipeline of nexus-rag:                   *)
(*   backend/app/services/hybrid_search.py   HybridSearchService           *)
(*   backend/app/services/reranker.py        CrossEncoderReranker          *)
(*   backend/app/api/reranking_routes.py     reranked_search               *)
(*   backend/app/models/schemas.py           RerankedSearchRequest         *)
(* Scores are Python floats.  They are modelled as binary floating-point   *)
(* numbers of MantBits significant bits, held as integers in units of      *)
(* 2^-FracBits, every operation rounding to nearest, ties to even.         *)
(***************************************************************************)
EXTENDS Integers, Sequences, FiniteSets, TLC

(* ------------------------------ bounds -------------------------------- *)

\* significant bits of a float (53 in the program)
MantBits == 5

\* a float is a multiple of 2^-FracBits
FracBits == 8

\* largest top_k a caller passes
MaxTopK == 2

\* largest candidates_multiplier a caller passes
MaxMult == 2

\* longest list of candidates a caller gives to a reranker
MaxCands == 3

\* largest batch_size a caller passes, apart from the default
MaxBatch == 2

(* ------------------------- float arithmetic --------------------------- *)

RECURSIVE Pow2(_)
Pow2(k) == IF k = 0 THEN 1 ELSE 2 * Pow2(k - 1)

\* 1.0
One == Pow2(FracBits)

Abs(x) == IF x < 0 THEN -x ELSE x

\* 2^MantBits: a float has a mantissa below it
MantLimit == Pow2(MantBits)

\* the unit in the last place of n / d: the least power of two u, from u up,
\* with n / (d * u) below 2^MantBits (n >= 0, d > 0)
RECURSIVE Ulp(_, _, _)
Ulp(n, d, u) ==
    IF n \div (d * u) < MantLimit THEN u ELSE Ulp(n, d, 2 * u)

\* n / b to the nearest integer, ties to even (n >= 0, b > 0)
NearestEven(n, b) ==
    LET q == n \div b
        r == n % b
    IN  IF 2 * r > b \/ (2 * r = b /\ q % 2 = 1) THEN q + 1 ELSE q

\* the float nearest to n / d (in units of 2^-FracBits), d > 0
RoundQ(n, d) ==
    LET a == Abs(n)
        u == Ulp(a, d, 1)
        m == NearestEven(a, d * u) * u
    IN  IF n < 0 THEN -m ELSE m

\* a + b
FAdd(a, b) == RoundQ(a + b, 1)

\* a - b
FSub(a, b) == RoundQ(a - b, 1)

\* a * b
FMul(a, b) == RoundQ(a * b, One)

\* a / b, b # 0
FDiv(a, b) == IF b < 0 THEN RoundQ(-(a * One), -b) ELSE RoundQ(a * One, b)

\* the float a decimal literal n/d denotes
Lit(n, d) == RoundQ(n * One, d)

(* --------------------------- Python values ---------------------------- *)

\* Python's None, where a string is expected
None == "None"

\* dict.get(key): the value, or None when the key is absent
GetOr(m, k, default) == IF k \in DOMAIN m THEN m[k] ELSE default

Get(m, k) == IF k \in DOMAIN m THEN m[k] ELSE None

\* s[:n]
Slice(s, n) ==
    IF n >= 0
    THEN SubSeq(s, 1, IF n < Len(s) THEN n ELSE Len(s))
    ELSE SubSeq(s, 1, IF Len(s) + n > 0 THEN Len(s) + n ELSE 0)

Max(S) == CHOOSE x \in S : \A y \in S : y <= x

Min(S) == CHOOSE x \in S : \A y \in S : x <= y

Range(s) == {s[i] : i \in 1..Len(s)}

\* faulty variant: equal keys come out in the reverse of their order
RECURSIVE SortedDescReversed(_, _)
SortedDescReversed(keys, n) ==
    IF n = 0 THEN <<>>
    ELSE LET srt == SortedDescReversed(keys, n - 1)
             k   == Cardinality({p \in 1..Len(srt) : keys[srt[p]] > keys[n]})
         IN  SubSeq(srt, 1, k) \o <<n>> \o SubSeq(srt, k + 1, Len(srt))

\* sorted(range(n), key = keys, reverse = True): the positions 1..n by
\* descending key; equal keys keep their order (the sort is stable)
RECURSIVE SortedDesc(_, _)
SortedDesc(keys, n) ==
    IF n = 0 THEN <<>>
    ELSE LET srt == SortedDesc(keys, n - 1)
             k   == Cardinality({p \in 1..Len(srt) : keys[srt[p]] >= keys[n]})
         IN  SubSeq(srt, 1, k) \o <<n>> \o SubSeq(srt, k + 1, Len(srt))

\* faulty variant: the list is left in the order it has
SortByNothing(s, f) == s

\* list.sort(key = ..., reverse = True) of the records s by field f
SortByDesc(s, f) ==
    LET idx == SortedDesc([i \in 1..Len(s) |-> s[i][f]], Len(s))
    IN  [i \in 1..Len(s) |-> s[idx[i]]]

\* the elements of s that satisfy Keep, in order
RECURSIVE Select(_, _)
Select(s, keep) ==
    IF s = <<>> THEN <<>>
    ELSE (IF Head(s) \in keep THEN <<Head(s)>> ELSE <<>>) \o Select(Tail(s), keep)

(* ---------------------- the collaborators' data ----------------------- *)

\* payloads of the points of the Qdrant collection; two chunks share a text
Points ==
    << [chunk_id |-> "c1", document_id |-> "d1", text |-> "a",
        metadata |-> [type |-> "sku", lang |-> "en"]],
       [chunk_id |-> "c2", document_id |-> "d2", text |-> "a",
        metadata |-> [type |-> "sku"]],
       [chunk_id |-> "c3", document_id |-> "d1", text |-> "b",
        metadata |-> [type |-> "sop", lang |-> "en"]] >>

\* payloads of a collection in which one point has no text
NullTextPoints ==
    << [chunk_id |-> "c1", document_id |-> "d1", text |-> "a",
        metadata |-> [type |-> "sku", lang |-> "en"]],
       [chunk_id |-> "c2", document_id |-> "d2",
        metadata |-> [type |-> "sku"]],
       [chunk_id |-> "c3", document_id |-> "d1", text |-> "b",
        metadata |-> [type |-> "sop", lang |-> "en"]] >>

\* similarity scores Qdrant reports (cosine: may be negative)
DenseScores == {Lit(-1, 2), Lit(1, 2), One}

\* corpora handed to index_for_bm25: documents and their metadata
Corpora ==
    { [documents |-> <<"a">>,
       metadata  |-> << [document_id |-> "d1", type |-> "sku", lang |-> "en"] >>],
      [documents |-> <<"c", "a", "c">>,
       metadata  |-> << [document_id |-> "d7", type |-> "sop"],
                        [document_id |-> "d1", type |-> "sku", lang |-> "en"],
                        [type |-> "sku", lang |-> "en"] >>] }

\* raw scores BM25Okapi.get_scores reports (zero and negative included)
Bm25Scores == {-One, 0, One, 3 * One}

\* logits of the cross-encoder model
Logits == {-1, 1}

\* keyword_weight a caller passes: 0 and 0.3
KeywordWeights == {0, Lit(3, 10)}

\* vector_weight a caller passes: 0 and 0.1
VectorWeights == {0, Lit(1, 10)}

\* metadata_filters a caller passes; None and {} are both falsy and are
\* both the empty mapping here
Filters ==
    { <<>>, [type |-> "sku", lang |-> "en"], [lang |-> None] }

(* --------------------------- Dense Retriever -------------------------- *)

\* faulty variant: the retriever is asked for top_k candidates
DenseTopKPlain(top_k) == top_k

\* hybrid_search, step 1: the top_k handed to qdrant.search
DenseTopK(top_k) == top_k * 2

\* QdrantClient.search(query_embedding, top_k = limit, score_threshold = None):
\* the limit points most similar to the query, best first, formatted.
\* sc[i] is the similarity of point i to the query.
QdrantSearch(points, sc, limit) ==
    LET idx == Slice(SortedDesc(sc, Len(points)), limit)
    IN  [i \in 1..Len(idx) |->
            [chunk_id    |-> GetOr(points[idx[i]], "chunk_id", None),
             document_id |-> GetOr(points[idx[i]], "document_id", None),
             text        |-> GetOr(points[idx[i]], "text", None),
             score       |-> sc[idx[i]],
             metadata    |-> points[idx[i]].metadata]]

(* ---------------------------- Lexical Index --------------------------- *)

\* bm25_index.get_scores(tokenized_query): one raw score per indexed
\* document; bs[t] is the score of a document whose text is t
GetScores(index, bs) == [i \in 1..Len(index) |-> bs[index[i]]]

\* faulty variant: the first top_k * 2 documents of the corpus
TopIndicesUnsorted(index, bs, top_k) ==
    IF index = None THEN <<>>
    ELSE Slice([i \in 1..Len(index) |-> i], top_k * 2)

\* hybrid_search, step 2: top_indices, the top_k * 2 best-scored documents
TopIndices(index, bs, top_k) ==
    IF index = None THEN <<>>
    ELSE LET bm25_scores == GetScores(index, bs)
         IN  Slice(SortedDesc(bm25_scores, Len(bm25_scores)), top_k * 2)

\* faulty variant: every top index becomes a lexical result, whatever its score
PositiveAll(bm25_scores) == 1..Len(bm25_scores)

\* hybrid_search, step 2: the documents with bm25_scores[idx] > 0
Positive(bm25_scores) == {i \in 1..Len(bm25_scores) : bm25_scores[i] > 0}

\* faulty variant: each metadata record of the corpus is tagged as searched
ServiceAfterTagged(index, documents, metadata) ==
    << index, documents,
       [i \in 1..Len(metadata) |-> [searched |-> TRUE] @@ metadata[i]] >>

\* hybrid_search, step 2, on the service: bm25_index, bm25_documents and
\* bm25_metadata are read, and neither they nor their elements assigned
ServiceAfter(index, documents, metadata) == << index, documents, metadata >>

\* hybrid_search, step 2: the top indices with a positive score become the
\* lexical results
Bm25Results(index, documents, metadata, bs, top_k) ==
    IF index = None THEN <<>>
    ELSE LET bm25_scores == GetScores(index, bs)
             kept == Select(TopIndices(index, bs, top_k), Positive(bm25_scores))
         IN  [i \in 1..Len(kept) |->
                 [text       |-> documents[kept[i]],
                  metadata   |-> metadata[kept[i]],
                  bm25_score |-> bm25_scores[kept[i]]]]

(* ---------------------------- Hybrid Merger --------------------------- *)

\* faulty variant: a batch of equal scores is normalized to 0.0
NormalizeVectorZero(vector_results) ==
    IF vector_results = <<>> THEN <<>>
    ELSE LET scores == {vector_results[i].score : i \in 1..Len(vector_results)}
             max_vector_score == Max(scores)
             min_vector_score == Min(scores)
             score_range == FSub(max_vector_score, min_vector_score)
         IN  [i \in 1..Len(vector_results) |->
                 [normalized_vector_score |->
                     IF score_range > 0
                     THEN FDiv(FSub(vector_results[i].score, min_vector_score),
                               score_range)
                     ELSE 0]
                 @@ vector_results[i]]

\* _combine_results: min-max normalization of the dense batch, written into
\* the records as normalized_vector_score
NormalizeVector(vector_results) ==
    IF vector_results = <<>> THEN <<>>
    ELSE LET scores == {vector_results[i].score : i \in 1..Len(vector_results)}
             max_vector_score == Max(scores)
             min_vector_score == Min(scores)
             score_range == FSub(max_vector_score, min_vector_score)
         IN  [i \in 1..Len(vector_results) |->
                 [normalized_vector_score |->
                     IF score_range > 0
                     THEN FDiv(FSub(vector_results[i].score, min_vector_score),
                               score_range)
                     ELSE One]
                 @@ vector_results[i]]

\* _combine_results: the lexical batch divided by its maximum, written into
\* the records as normalized_bm25_score
NormalizeBm25(bm25_results) ==
    IF bm25_results = <<>> THEN <<>>
    ELSE LET max_bm25_score ==
                 Max({bm25_results[i].bm25_score : i \in 1..Len(bm25_results)})
         IN  [i \in 1..Len(bm25_results) |->
                 [normalized_bm25_score |->
                     IF max_bm25_score > 0
                     THEN FDiv(bm25_results[i].bm25_score, max_bm25_score)
                     ELSE 0]
                 @@ bm25_results[i]]

\* faulty variant: the membership test never finds the text
KeyPosNever(results_dict, text) == 0

\* position of the entry of results_dict keyed by text, 0 when there is none
KeyPos(results_dict, text) ==
    IF \E i \in 1..Len(results_dict) : results_dict[i].text = text
    THEN CHOOSE i \in 1..Len(results_dict) : results_dict[i].text = text
    ELSE 0

\* faulty variant: a later record of a text overwrites the entry's
\* identifiers, metadata and score
RECURSIVE AddVectorLast(_, _)
AddVectorLast(results_dict, rs) ==
    IF rs = <<>> THEN results_dict
    ELSE LET r == Head(rs)
             p == KeyPos(results_dict, r.text)
             entry == [text         |-> r.text,
                       chunk_id     |-> r.chunk_id,
                       document_id  |-> r.document_id,
                       metadata     |-> r.metadata,
                       vector_score |-> r.normalized_vector_score,
                       bm25_score   |-> 0]
         IN  AddVectorLast(
                 IF p = 0 THEN Append(results_dict, entry)
                 ELSE [results_dict EXCEPT ![p] = entry],
                 Tail(rs))

\* _combine_results, "Add vector results": the first record of each text
\* makes the entry; results_dict is a dict, kept here in insertion order
RECURSIVE AddVector(_, _)
AddVector(results_dict, rs) ==
    IF rs = <<>> THEN results_dict
    ELSE LET r == Head(rs)
         IN  AddVector(
                 IF KeyPos(results_dict, r.text) = 0
                 THEN Append(results_dict,
                             [text         |-> r.text,
                              chunk_id     |-> r.chunk_id,
                              document_id  |-> r.document_id,
                              metadata     |-> r.metadata,
                              vector_score |-> r.normalized_vector_score,
                              bm25_score   |-> 0])
                 ELSE results_dict,
                 Tail(rs))

\* faulty variant: a lexical hit whose text no dense result has is dropped
RECURSIVE AddBm25Known(_, _)
AddBm25Known(results_dict, rs) ==
    IF rs = <<>> THEN results_dict
    ELSE LET r == Head(rs)
             p == KeyPos(results_dict, r.text)
         IN  AddBm25Known(
                 IF p # 0
                 THEN [results_dict EXCEPT
                          ![p].bm25_score = r.normalized_bm25_score]
                 ELSE results_dict,
                 Tail(rs))

\* _combine_results, "Add BM25 results": a known text gets its bm25_score
\* set, an unknown text makes an entry with vector_score 0.0
RECURSIVE AddBm25(_, _)
AddBm25(results_dict, rs) ==
    IF rs = <<>> THEN results_dict
    ELSE LET r == Head(rs)
             p == KeyPos(results_dict, r.text)
         IN  AddBm25(
                 IF p # 0
                 THEN [results_dict EXCEPT
                          ![p].bm25_score = r.normalized_bm25_score]
                 ELSE Append(results_dict,
                             [text         |-> r.text,
                              chunk_id     |-> None,
                              document_id  |-> Get(r.metadata, "document_id"),
                              metadata     |-> r.metadata,
                              vector_score |-> 0,
                              bm25_score   |-> r.normalized_bm25_score]),
                 Tail(rs))

\* faulty variant: the lexical contribution is subtracted
HybridScoreDifference(result, vector_weight, keyword_weight) ==
    FSub(FMul(result.vector_score, vector_weight),
         FMul(result.bm25_score, keyword_weight))

\* faulty variant: the two scores are added without their weights
HybridScoreUnweighted(result, vector_weight, keyword_weight) ==
    FAdd(result.vector_score, result.bm25_score)

\* _combine_results, "Calculate hybrid scores"
HybridScore(result, vector_weight, keyword_weight) ==
    FAdd(FMul(result.vector_score, vector_weight),
         FMul(result.bm25_score, keyword_weight))

\* _combine_results on the normalized batches
combine_results(vector_results, bm25_results, vector_weight, keyword_weight) ==
    LET results_dict == AddBm25(AddVector(<<>>, vector_results), bm25_results)
    IN  [i \in 1..Len(results_dict) |->
            [hybrid_score |->
                HybridScore(results_dict[i], vector_weight, keyword_weight)]
            @@ results_dict[i]]

\* _apply_filters: one result against the filters
Matches(result, filters) ==
    \A key \in DOMAIN filters : ~(Get(result.metadata, key) # filters[key])

\* _apply_filters
RECURSIVE apply_filters(_, _)
apply_filters(results, filters) ==
    IF results = <<>> THEN <<>>
    ELSE (IF Matches(Head(results), filters) THEN <<Head(results)>> ELSE <<>>)
         \o apply_filters(Tail(results), filters)

\* faulty variant: the sorted list is returned whole
FilterSortAll(combined_results, metadata_filters, top_k) ==
    LET filtered == IF DOMAIN metadata_filters # {}
                    THEN apply_filters(combined_results, metadata_filters)
                    ELSE combined_results
    IN  SortByDesc(filtered, "hybrid_score")

\* hybrid_search, steps 4 and 5: filter when filters are given, sort by
\* hybrid_score, cut to top_k
FilterSortCut(combined_results, metadata_filters, top_k) ==
    LET filtered == IF DOMAIN metadata_filters # {}
                    THEN apply_filters(combined_results, metadata_filters)
                    ELSE combined_results
    IN  Slice(SortByDesc(filtered, "hybrid_score"), top_k)

(* ------------------------------ Reranker ------------------------------ *)

\* _score_batch: the default of its batch_size parameter
DefaultBatchSize == 32

\* a CrossEncoderReranker: its tokenizer and model, None until loaded; log
\* records what the object did, in order ("__init__", "load", "rerank", and
\* one "forward" for each batch given to the tokenizer and the model); raised
\* is the exception that left one of its methods
NoReranker == [tokenizer |-> None, model |-> None, log |-> <<>>,
               raised |-> None]

\* CrossEncoderReranker._lazy_load: loads when self.model is None.  avail:
\* whether from_pretrained finds the model; when it does not, it raises
lazy_load(self, avail) ==
    IF self.model = None
    THEN IF avail
         THEN [self EXCEPT !.tokenizer = "tokenizer", !.model = "model",
                           !.log = Append(@, "load")]
         ELSE [self EXCEPT !.raised = "OSError"]
    ELSE self

\* CrossEncoderReranker.__init__
CrossEncoderReranker(avail) ==
    lazy_load([NoReranker EXCEPT !.log = <<"__init__">>], avail)

\* list[n:]
Drop(s, n) == SubSeq(s, Min({n, Len(s)}) + 1, Len(s))

\* faulty variant: the batch at i is pairs[i : batch_size], which is empty
\* for every i but the first
BatchesNoOffset(pairs, batch_size) ==
    IF pairs = <<>> THEN <<>>
    ELSE << Slice(pairs, batch_size) >>
         \o [k \in 1..((Len(pairs) - 1) \div batch_size) |-> <<>>]

\* _score_batch: the batches pairs[i : i + batch_size] for i in
\* range(0, len(pairs), batch_size)
RECURSIVE Batches(_, _)
Batches(pairs, batch_size) ==
    IF pairs = <<>> THEN <<>>
    ELSE << Slice(pairs, batch_size) >>
         \o Batches(Drop(pairs, batch_size), batch_size)

\* faulty variant: the logit is the score
SigmoidNone(x) == x * One

\* torch.sigmoid on a logit x (an integer): the logistic function, to the
\* base 2 here, 2^x / (2^x + 1)
Sigmoid(x) ==
    IF x >= 0 THEN Lit(Pow2(x), Pow2(x) + 1) ELSE Lit(1, 1 + Pow2(-x))

\* _score_batch: tokenizer, model and sigmoid on one batch; ce[t] is the
\* model's logit for the pair (query, t)
Forward(batch, ce) == [i \in 1..Len(batch) |-> Sigmoid(ce[batch[i]])]

\* all_scores.extend(...) over the batches
RECURSIVE Extend(_, _)
Extend(batches, ce) ==
    IF batches = <<>> THEN <<>>
    ELSE Forward(Head(batches), ce) \o Extend(Tail(batches), ce)

\* whether the tokenizer takes every pair of the batch: ce is defined on the
\* texts it takes, and it raises on any other
Tokenizable(batch, ce) == \A i \in 1..Len(batch) : batch[i] \in DOMAIN ce

\* CrossEncoderReranker._score_batch
score_batch(pairs, batch_size, ce) == Extend(Batches(pairs, batch_size), ce)

\* faulty variant: the score is written to the first candidate only
AddScoresFirst(results, scores) ==
    [i \in 1..Len(results) |->
        IF i = 1 THEN [cross_encoder_score |-> scores[i]] @@ results[i]
        ELSE [cross_encoder_score |-> 0] @@ results[i]]

\* faulty variant: the score is added to the one the dict already holds
AddScoresAccumulate(results, scores) ==
    [i \in 1..Len(results) |->
        [cross_encoder_score |->
            FAdd(GetOr(results[i], "cross_encoder_score", 0), scores[i])]
        @@ results[i]]

\* rerank, "Add cross-encoder scores to results": each dict of the caller's
\* list gets its cross_encoder_score
AddScores(results, scores) ==
    [i \in 1..Len(results) |->
        [cross_encoder_score |-> scores[i]] @@ results[i]]

\* faulty variant: the pairs are given to the model as one batch before the
\* list is tested for being empty
rerank_score_first(self, results, top_k, ce) ==
    LET pairs  == [i \in 1..Len(results) |-> GetOr(results[i], "text", "")]
        scores == Forward(pairs, ce)
        scored == AddScores(results, scores)
    IN  [self |-> [self EXCEPT !.log = @ \o << "rerank", "forward" >>],
         returned |-> Slice(SortByDesc(scored, "cross_encoder_score"), top_k),
         results |-> scored]

\* faulty variant: every scored candidate is returned, top_k is ignored
rerank_all(self, results, top_k, ce) ==
    IF results = <<>>
    THEN [self |-> [self EXCEPT !.log = Append(@, "rerank")],
          returned |-> <<>>, results |-> results]
    ELSE LET pairs   == [i \in 1..Len(results) |->
                            GetOr(results[i], "text", "")]
             batches == Batches(pairs, DefaultBatchSize)
             scores  == score_batch(pairs, DefaultBatchSize, ce)
             scored  == AddScores(results, scores)
         IN  [self |-> [self EXCEPT !.log =
                           Append(@, "rerank")
                           \o [b \in 1..Len(batches) |-> "forward"]],
              returned |-> SortByDesc(scored, "cross_encoder_score"),
              results |-> scored]

\* CrossEncoderReranker.rerank: what it returns, the caller's list after the
\* call (its dicts are written to), and the reranker with its log.  When the
\* tokenizer raises on a batch, so does rerank.
rerank(self, results, top_k, ce) ==
    IF results = <<>>
    THEN [self |-> [self EXCEPT !.log = Append(@, "rerank")],
          returned |-> <<>>, results |-> results]
    ELSE LET pairs   == [i \in 1..Len(results) |->
                            GetOr(results[i], "text", "")]
             batches == Batches(pairs, DefaultBatchSize)
             refused == {b \in 1..Len(batches) : ~Tokenizable(batches[b], ce)}
         IN  IF refused # {}
             THEN [self |-> [self EXCEPT
                               !.log = Append(@, "rerank")
                                   \o [b \in 1..Min(refused) |-> "forward"],
                               !.raised = "TypeError"],
                   returned |-> <<>>, results |-> results]
             ELSE LET scores == score_batch(pairs, DefaultBatchSize, ce)
                      scored == AddScores(results, scores)
                  IN  [self |-> [self EXCEPT !.log =
                                    Append(@, "rerank")
                                    \o [b \in 1..Len(batches) |-> "forward"]],
                       returned |->
                           Slice(SortByDesc(scored, "cross_encoder_score"),
                                 top_k),
                       results |-> scored]

\* faulty variant: the candidates returned are given a cross_encoder_score
dummy_rerank_scored(results, top_k) ==
    [returned |-> [i \in 1..Len(Slice(results, top_k)) |->
                      [cross_encoder_score |-> 0] @@ results[i]],
     results |-> results]

\* DummyReranker.rerank: what it returns, and the caller's list after the call
dummy_rerank(results, top_k) ==
    [returned |-> Slice(results, top_k), results |-> results]

\* faulty variant: the list is truncated whatever use_reranker says
RerankStepNever(results, use_reranker, top_k, ce, avail) ==
    [reranker |-> NoReranker, reranked |-> FALSE,
     results |-> Slice(results, top_k)]

\* reranked_search, "Step 3: Cross-Encoder Reranking (optional)"
RerankStep(results, use_reranker, top_k, ce, avail) ==
    IF use_reranker /\ Len(results) > 0
    THEN LET reranker == CrossEncoderReranker(avail)
         IN  IF reranker.raised # None
             THEN [reranker |-> reranker, reranked |-> FALSE,
                   results |-> <<>>]
             ELSE LET call == rerank(reranker, results, top_k, ce)
                  IN  [reranker |-> call.self, reranked |-> TRUE,
                       results |-> call.returned]
    ELSE [reranker |-> NoReranker, reranked |-> FALSE,
          results |-> Slice(results, top_k)]

\* reranked_search, "Convert to SearchResult objects": one SearchResult; the
\* score keys are written over the payload's metadata
ToSearchResult(r) ==
    [chunk_id    |-> GetOr(r, "chunk_id", ""),
     document_id |-> GetOr(r, "document_id", ""),
     text        |-> r.text,
     score       |-> GetOr(r, "cross_encoder_score",
                           GetOr(r, "hybrid_score", 0)),
     metadata    |->
         [hybrid_score        |-> GetOr(r, "hybrid_score", 0),
          vector_score        |-> GetOr(r, "vector_score", 0),
          bm25_score          |-> GetOr(r, "bm25_score", 0),
          cross_encoder_score |-> GetOr(r, "cross_encoder_score", None)]
         @@ GetOr(r, "metadata", <<>>)]

\* reranked_search, "Convert to SearchResult objects": chunk_id, document_id
\* and text of SearchResult are str, and None is refused by the validation
SearchResults(results) ==
    IF \E i \in 1..Len(results) :
          \/ GetOr(results[i], "chunk_id", "") = None
          \/ GetOr(results[i], "document_id", "") = None
          \/ results[i].text = None
    THEN "ValidationError"
    ELSE None

(* ------------------------------- state -------------------------------- *)

VARIABLES
    bm25_index,        \* HybridSearchService.bm25_index: None, or the corpus indexed
    bm25_documents,    \* HybridSearchService.bm25_documents
    bm25_metadata,     \* HybridSearchService.bm25_metadata
    pc,                \* the call in progress: idle, await, done, error
    req,               \* the caller's arguments
    hs_top_k,          \* hybrid_search: its top_k parameter
    keyword_weight,    \* hybrid_search: keyword_weight after "Normalize weights"
    vector_weight,     \* hybrid_search: vector_weight after "Normalize weights"
    dense_limit,       \* top_k of the qdrant.search call awaited
    index_at_call,     \* the bm25_index of the service when hybrid_search began
    bm25_scores,       \* hybrid_search: bm25_scores, one raw score per document
    top_indices,       \* hybrid_search: top_indices of the lexical path
    vector_results,    \* hybrid_search: the dense batch, as normalized
    bm25_results,      \* hybrid_search: the lexical batch, as normalized
    combined_results,  \* hybrid_search: what _combine_results returned
    hybrid_results,    \* what hybrid_search returned
    reranked,          \* reranked_search: whether the reranker was invoked
    reranker,          \* the CrossEncoderReranker the request made, if any
    candidates,        \* the list given to a reranker, as it is after the call
    response,          \* reranked_search: the SearchResult list of its response
    results,           \* what the call returned
    error              \* the exception the call raised, None when none

vars == << bm25_index, bm25_documents, bm25_metadata, pc, req, hs_top_k,
           keyword_weight, vector_weight, dense_limit, index_at_call,
           bm25_scores, top_indices, vector_results, bm25_results, combined_results, hybrid_results,
           reranked, reranker, candidates, response, results, error >>

service == << bm25_index, bm25_documents, bm25_metadata >>

locals == << hs_top_k, keyword_weight, vector_weight, dense_limit,
             index_at_call, bm25_scores, top_indices,
             vector_results, bm25_results, combined_results, hybrid_results,
             reranked, reranker, candidates, response, results >>

\* RerankedSearchRequest: top_k has ge = 1
TopKMin == 1

\* RerankedSearchRequest: candidates_multiplier has ge = 2
MultMin == 2

\* RerankedSearchRequest: candidates_multiplier has le = 10
MultMax == 10

\* RerankedSearchRequest: candidates_multiplier has default = 3
MultDefault == 3

NoReq == [api |-> None, top_k |-> 0, candidates_multiplier |-> 0,
          multiplier_given |-> FALSE,
          keyword_weight |-> 0, vector_weight |-> 0, use_reranker |-> FALSE,
          metadata_filters |-> <<>>]

NoLocals ==
    /\ hs_top_k' = 0
    /\ keyword_weight' = 0
    /\ vector_weight' = 0
    /\ dense_limit' = 0
    /\ index_at_call' = None
    /\ bm25_scores' = <<>>
    /\ top_indices' = <<>>
    /\ vector_results' = <<>>
    /\ bm25_results' = <<>>
    /\ combined_results' = <<>>
    /\ hybrid_results' = <<>>
    /\ reranked' = FALSE
    /\ reranker' = NoReranker
    /\ candidates' = <<>>
    /\ response' = <<>>
    /\ results' = <<>>

\* HybridSearchService.__init__; no call in progress
Init ==
    /\ bm25_index = None
    /\ bm25_documents = <<>>
    /\ bm25_metadata = <<>>
    /\ pc = "idle"
    /\ req = NoReq
    /\ hs_top_k = 0
    /\ keyword_weight = 0
    /\ vector_weight = 0
    /\ dense_limit = 0
    /\ index_at_call = None
    /\ bm25_scores = <<>>
    /\ top_indices = <<>>
    /\ vector_results = <<>>
    /\ bm25_results = <<>>
    /\ combined_results = <<>>
    /\ hybrid_results = <<>>
    /\ reranked = FALSE
    /\ reranker = NoReranker
    /\ candidates = <<>>
    /\ response = <<>>
    /\ results = <<>>
    /\ error = None

(* ------------------------------ actions ------------------------------- *)

\* faulty variant: a query that awaits sees the new index with the document
\* and metadata lists of the build before, when those are long enough
index_for_bm25_torn(c) ==
    /\ pc \in {"idle", "await"}
    /\ bm25_index' = c.documents
    /\ IF pc = "await" /\ Len(bm25_documents) >= Len(c.documents)
       THEN UNCHANGED << bm25_documents, bm25_metadata >>
       ELSE /\ bm25_documents' = c.documents
            /\ bm25_metadata' = c.metadata
    /\ UNCHANGED << pc, req, locals, error >>

\* HybridSearchService.index_for_bm25(documents, metadata): synchronous, so it
\* runs between two calls or while a hybrid_search awaits the retriever
index_for_bm25(c) ==
    /\ pc \in {"idle", "await"}
    /\ bm25_index' = c.documents
    /\ bm25_documents' = c.documents
    /\ bm25_metadata' = c.metadata
    /\ UNCHANGED << pc, req, locals, error >>

\* faulty variant: the weight is used as passed
EffectiveWeightRaw(w, total_weight) == w

\* hybrid_search, "Normalize weights": weight / total_weight
EffectiveWeight(w, total_weight) == FDiv(w, total_weight)

\* faulty variant: a zero total falls back to the default split 0.3 / 0.7
hybrid_search_begin_default(top_k, kw, vw) ==
    LET total_weight == FAdd(kw, vw)
    IN  /\ pc' = "await"
        /\ error' = None
        /\ hs_top_k' = top_k
        /\ keyword_weight' = IF total_weight = 0 THEN Lit(3, 10)
                              ELSE EffectiveWeight(kw, total_weight)
        /\ vector_weight' = IF total_weight = 0 THEN Lit(7, 10)
                             ELSE EffectiveWeight(vw, total_weight)
        /\ dense_limit' = DenseTopK(top_k)
        /\ index_at_call' = IF req'.api = "reranked_search" THEN None
                            ELSE bm25_index
        /\ UNCHANGED << bm25_scores, top_indices, vector_results,
                        bm25_results, combined_results, hybrid_results,
                        reranked, reranker, candidates, response, results >>

\* hybrid_search up to its await: "Normalize weights", then the call of
\* qdrant.search with top_k * 2.  Both weights zero: the division raises.
hybrid_search_begin(top_k, kw, vw) ==
    LET total_weight == FAdd(kw, vw)
    IN  IF total_weight = 0
        THEN /\ pc' = "error"
             /\ error' = "ZeroDivisionError"
             /\ NoLocals
        ELSE /\ pc' = "await"
             /\ error' = None
             /\ hs_top_k' = top_k
             /\ keyword_weight' = EffectiveWeight(kw, total_weight)
             /\ vector_weight' = EffectiveWeight(vw, total_weight)
             /\ dense_limit' = DenseTopK(top_k)
             /\ index_at_call' = IF req'.api = "reranked_search" THEN None
                                 ELSE bm25_index
             /\ UNCHANGED << bm25_scores, top_indices, vector_results,
                             bm25_results, combined_results, hybrid_results,
                             reranked, reranker, candidates, response,
                             results >>

\* a caller invokes hybrid_search on the service, with arguments of the
\* sets given
HybridSearchCallOf(TopKs, KWs, VWs, Fs) ==
    /\ pc = "idle"
    /\ \E top_k \in TopKs, kw \in KWs, vw \in VWs, f \in Fs :
          /\ req' = [api |-> "hybrid_search", top_k |-> top_k,
                     candidates_multiplier |-> 0,
                     multiplier_given |-> FALSE, keyword_weight |-> kw,
                     vector_weight |-> vw, use_reranker |-> FALSE,
                     metadata_filters |-> f]
          /\ hybrid_search_begin(top_k, kw, vw)
    /\ UNCHANGED service

HybridSearchCall ==
    HybridSearchCallOf(0..MaxTopK, KeywordWeights, VectorWeights, Filters)

\* faulty variant: 1 is accepted as well
ValidMultiplierFromOne(m) == m >= 1 /\ m <= MultMax

\* RerankedSearchRequest: Field(default=3, ge=2, le=10)
ValidMultiplier(m) == m >= MultMin /\ m <= MultMax

\* POST /search/reranked: the request is validated, num_candidates computed,
\* a fresh HybridSearchService made and its hybrid_search called.  given is
\* << >> for a request without candidates_multiplier, << m >> for one with
RerankedSearchCallOf(TopKs, Givens, KWs, VWs, Us, Fs) ==
    /\ pc = "idle"
    /\ \E top_k \in TopKs, given \in Givens, kw \in KWs, vw \in VWs,
          u \in Us, f \in Fs :
          LET m == IF given = <<>> THEN MultDefault ELSE given[1]
          IN  /\ req' = [api |-> "reranked_search", top_k |-> top_k,
                         candidates_multiplier |-> m,
                         multiplier_given |-> given # <<>>,
                         keyword_weight |-> kw, vector_weight |-> vw,
                         use_reranker |-> u, metadata_filters |-> f]
              /\ IF top_k < TopKMin \/ ~ValidMultiplier(m)
                 THEN /\ pc' = "error"
                      /\ error' = "ValidationError"
                      /\ NoLocals
                 ELSE LET num_candidates == top_k * m
                      IN  hybrid_search_begin(num_candidates, kw, vw)
    /\ UNCHANGED service

RerankedSearchCall ==
    RerankedSearchCallOf(0..MaxTopK, {<< m >> : m \in 1..MaxMult},
                         KeywordWeights, VectorWeights, BOOLEAN, Filters)

\* the service whose hybrid_search runs: the caller's, or the route's fresh one
Index == IF req.api = "reranked_search" THEN None ELSE bm25_index

\* hybrid_search from the retriever's answer to its return, and the rest of
\* the route.  points: the collection; sc: the similarity of each point to
\* the query; bs: the BM25 score of each text; ce: the cross-encoder score of
\* each text; avail: whether the cross-encoder model can be loaded.
Resume(points, sc, bs, ce, avail) ==
    \E vr \in {NormalizeVector(QdrantSearch(points, sc, dense_limit))} :
    \E br \in {NormalizeBm25(Bm25Results(Index, bm25_documents, bm25_metadata,
                                         bs, hs_top_k))} :
    \E cr \in {combine_results(vr, br, vector_weight, keyword_weight)} :
    \E hr \in {FilterSortCut(cr, req.metadata_filters, hs_top_k)} :
    \E st \in {IF req.api = "reranked_search"
               THEN RerankStep(hr, req.use_reranker, req.top_k, ce, avail)
               ELSE [reranker |-> NoReranker, reranked |-> FALSE,
                     results |-> hr]} :
    \E raised \in {IF st.reranker.raised # None THEN st.reranker.raised
                   ELSE IF req.api = "reranked_search"
                        THEN SearchResults(st.results)
                        ELSE None} :
    \E after \in {ServiceAfter(bm25_index, bm25_documents, bm25_metadata)} :
        /\ bm25_index' = after[1]
        /\ bm25_documents' = after[2]
        /\ bm25_metadata' = after[3]
        /\ vector_results' = vr
        /\ bm25_scores' = IF Index = None THEN <<>> ELSE GetScores(Index, bs)
        /\ top_indices' = TopIndices(Index, bs, hs_top_k)
        /\ bm25_results' = br
        /\ combined_results' = cr
        /\ hybrid_results' = hr
        /\ reranked' = st.reranked
        /\ reranker' = st.reranker
        /\ results' = IF raised # None THEN <<>> ELSE st.results
        /\ response' = IF raised = None /\ req.api = "reranked_search"
                       THEN [i \in 1..Len(st.results) |->
                                ToSearchResult(st.results[i])]
                       ELSE <<>>
        /\ pc' = IF raised # None THEN "error" ELSE "done"
        /\ error' = raised
        /\ UNCHANGED << req, hs_top_k, keyword_weight, vector_weight,
                        dense_limit, index_at_call, candidates >>

\* texts of the points
PointTexts == {Points[i].text : i \in 1..Len(Points)}

\* the retriever answers a hybrid_search on the service; the similarities
\* and the BM25 scores are of the sets given
HybridSearchResumeOf(DS, BS) ==
    /\ pc = "await"
    /\ req.api = "hybrid_search"
    /\ \E sc \in [1..Len(Points) -> DS] :
       \E bs \in IF bm25_index = None THEN {<<>>}
                 ELSE [Range(bm25_index) -> BS] :
          Resume(Points, sc, bs, <<>>, TRUE)

HybridSearchResume == HybridSearchResumeOf(DenseScores, Bm25Scores)

\* the retriever answers the route's hybrid_search
RerankedSearchResume ==
    /\ pc = "await"
    /\ req.api = "reranked_search"
    /\ \E sc \in [1..Len(Points) -> DenseScores] :
       \E ce \in IF req.use_reranker THEN [PointTexts -> Logits]
                 ELSE {<<>>} :
       \E avail \in BOOLEAN :
          Resume(Points, sc, <<>>, ce, avail)

\* the retriever refuses a limit below 1 (a Qdrant server validates it; the
\* client's local mode answers with an empty list, which is Resume): the
\* exception leaves hybrid_search at its await
RetrieverRefuses ==
    /\ pc = "await"
    /\ dense_limit < 1
    /\ pc' = "error"
    /\ error' = "UnexpectedResponse"
    /\ UNCHANGED << service, req, locals >>

\* GET /reranker/info: makes a CrossEncoderReranker and answers with its
\* get_info(); nothing is scored
reranker_info ==
    /\ pc = "idle"
    /\ \E avail \in BOOLEAN :
          LET r == CrossEncoderReranker(avail)
          IN  /\ req' = [NoReq EXCEPT !.api = "reranker_info"]
              /\ reranker' = r
              /\ pc' = IF r.raised # None THEN "error" ELSE "done"
              /\ error' = r.raised
    /\ UNCHANGED << service, hs_top_k, keyword_weight, vector_weight,
                    dense_limit, index_at_call, bm25_scores, top_indices,
                    vector_results, bm25_results, combined_results,
                    hybrid_results, reranked, candidates, response, results >>

\* the caller has the result, or the exception
Finish ==
    /\ pc \in {"done", "error"}
    /\ pc' = "idle"
    /\ req' = NoReq
    /\ error' = None
    /\ NoLocals
    /\ UNCHANGED service

Next ==
    \/ \E c \in Corpora : index_for_bm25(c)
    \/ HybridSearchCall
    \/ RerankedSearchCall
    \/ HybridSearchResume
    \/ RerankedSearchResume
    \/ RetrieverRefuses
    \/ reranker_info
    \/ Finish

Spec == Init /\ [][Next]_vars

(* -------------- hybrid_search over the range of the weights ------------ *)

\* the floats from 0.125 to 1.0, and 0
UnitWeights ==
    {0} \cup {RoundQ(n, 1) : n \in (One \div 8)..One}

\* a hybrid_search with top_k = 2, no filters and any two of these weights
HybridSearchCallWeights ==
    HybridSearchCallOf({2}, UnitWeights, UnitWeights, {<<>>})

\* its answer, for one similarity and one BM25 score
HybridSearchResumeWeights == HybridSearchResumeOf({Lit(1, 2)}, {3 * One})

NextWeights ==
    \/ \E c \in Corpora : index_for_bm25(c)
    \/ HybridSearchCallWeights
    \/ HybridSearchResumeWeights
    \/ Finish

SpecWeights == Init /\ [][NextWeights]_vars

(* --------------- the route over a point that has no text --------------- *)

\* the retriever answers the route's hybrid_search from a collection in which
\* one point has no text; the tokenizer may take a None text, or raise on it
RerankedSearchResumeNullText ==
    /\ pc = "await"
    /\ req.api = "reranked_search"
    /\ \E sc \in [1..Len(NullTextPoints) -> DenseScores] :
       \E ce \in IF req.use_reranker
                 THEN [PointTexts -> Logits]
                      \cup [PointTexts \cup {None} -> Logits]
                 ELSE {<<>>} :
       \E avail \in BOOLEAN :
          Resume(NullTextPoints, sc, <<>>, ce, avail)

NextNullText ==
    \/ RerankedSearchCall
    \/ RerankedSearchResumeNullText
    \/ Finish

SpecNullText == Init /\ [][NextNullText]_vars

(* ------------- the route over points of three different texts ---------- *)

\* payloads of a collection whose points all differ in text
DistinctPoints ==
    << [chunk_id |-> "c1", document_id |-> "d1", text |-> "a",
        metadata |-> [type |-> "sku", lang |-> "en"]],
       [chunk_id |-> "c2", document_id |-> "d2", text |-> "b",
        metadata |-> [type |-> "sku"]],
       [chunk_id |-> "c3", document_id |-> "d1", text |-> "c",
        metadata |-> [type |-> "sop", lang |-> "en"]] >>

\* the retriever answers the route's hybrid_search from that collection
RerankedSearchResumeDistinct ==
    /\ pc = "await"
    /\ req.api = "reranked_search"
    /\ \E sc \in [1..Len(DistinctPoints) -> DenseScores] :
       \E ce \in IF req.use_reranker
                 THEN [{DistinctPoints[i].text : i \in 1..Len(DistinctPoints)}
                          -> Logits]
                 ELSE {<<>>} :
       \E avail \in BOOLEAN :
          Resume(DistinctPoints, sc, <<>>, ce, avail)

NextDistinct ==
    \/ RerankedSearchCall
    \/ RerankedSearchResumeDistinct
    \/ Finish

SpecDistinct == Init /\ [][NextDistinct]_vars

(* -------------- the route over the range of the multiplier ------------- *)

\* candidates_multiplier of a request: absent, small, and around le = 10
Multipliers ==
    {<<>>} \cup {<< m >> : m \in (1..MaxMult) \cup {MultMax, MultMax + 1}}

\* a request with the default weights, no filters and any of these
\* multipliers
RerankedSearchCallMultipliers ==
    RerankedSearchCallOf(0..MaxTopK, Multipliers, {Lit(3, 10)}, {Lit(7, 10)},
                         BOOLEAN, {<<>>})

NextMultipliers ==
    \/ RerankedSearchCallMultipliers
    \/ RerankedSearchResume
    \/ Finish

SpecMultipliers == Init /\ [][NextMultipliers]_vars

(* ------------------------ the rerankers, called ------------------------ *)

\* candidate records a caller holds: two share a text, one has no text
CandidatePool ==
    << [chunk_id |-> "c1", text |-> "a", hybrid_score |-> One],
       [chunk_id |-> "c2", text |-> "b", hybrid_score |-> Lit(1, 2)],
       [chunk_id |-> "c3", text |-> "a", hybrid_score |-> Lit(1, 2)],
       [chunk_id |-> "c4", hybrid_score |-> 0] >>

\* the lists of at most MaxCands different candidates
CandidateLists ==
    LET picks == UNION {[1..n -> 1..Len(CandidatePool)] : n \in 0..MaxCands}
    IN  {[i \in 1..Len(p) |-> CandidatePool[p[i]]] :
            p \in {q \in picks : \A i, j \in 1..Len(q) : q[i] = q[j] => i = j}}

\* the texts a pair holds: a candidate's text, "" for a candidate without
ScoredTexts == {"a", "b", ""}

\* the lists of at most MaxCands pairs, each given by its text
PairLists == UNION {[1..n -> ScoredTexts] : n \in 0..MaxCands}

\* batch_size a caller of _score_batch passes
BatchSizes == (1..MaxBatch) \cup {DefaultBatchSize}

NoCall == [api |-> None, top_k |-> 0, results |-> <<>>, pairs |-> <<>>,
           batch_size |-> 0, ce |-> <<>>, previous |-> <<>>]

\* a call of reranker.rerank(query, results, top_k) on a loaded
\* CrossEncoderReranker
RerankCall ==
    /\ pc = "idle"
    /\ \E cs \in CandidateLists, top_k \in 0..MaxTopK,
          ce \in [ScoredTexts -> Logits] :
          LET call == rerank(CrossEncoderReranker(TRUE), cs, top_k, ce)
          IN  /\ req' = [NoCall EXCEPT !.api = "rerank", !.top_k = top_k,
                                       !.results = cs, !.ce = ce]
              /\ reranker' = call.self
              /\ candidates' = call.results
              /\ results' = call.returned
    /\ pc' = "done"
    /\ UNCHANGED << service, hs_top_k, keyword_weight, vector_weight,
                    dense_limit, index_at_call, bm25_scores, top_indices,
                    vector_results, bm25_results, combined_results,
                    hybrid_results, reranked, response, error >>

\* the caller of rerank calls it once more: the same reranker, the same query
\* and the same list, whose dicts now hold the scores of the first call
RerankAgain ==
    /\ pc = "done"
    /\ req.api = "rerank"
    /\ LET call == rerank(reranker, candidates, req.top_k, req.ce)
       IN  /\ req' = [req EXCEPT !.api = "rerank_again", !.previous = results]
           /\ reranker' = call.self
           /\ candidates' = call.results
           /\ results' = call.returned
    /\ pc' = "done"
    /\ UNCHANGED << service, hs_top_k, keyword_weight, vector_weight,
                    dense_limit, index_at_call, bm25_scores, top_indices,
                    vector_results, bm25_results, combined_results,
                    hybrid_results, reranked, response, error >>

\* a call of DummyReranker().rerank(query, results, top_k)
DummyRerankCall ==
    /\ pc = "idle"
    /\ \E cs \in CandidateLists, top_k \in 0..MaxTopK :
          LET call == dummy_rerank(cs, top_k)
          IN  /\ req' = [NoCall EXCEPT !.api = "dummy_rerank",
                                       !.top_k = top_k, !.results = cs]
              /\ candidates' = call.results
              /\ results' = call.returned
    /\ pc' = "done"
    /\ UNCHANGED << service, hs_top_k, keyword_weight, vector_weight,
                    dense_limit, index_at_call, bm25_scores, top_indices,
                    vector_results, bm25_results, combined_results,
                    hybrid_results, reranked, reranker, response, error >>

\* a call of reranker._score_batch(pairs, batch_size) on a loaded
\* CrossEncoderReranker
ScoreBatchCall ==
    /\ pc = "idle"
    /\ \E pairs \in PairLists, batch_size \in BatchSizes,
          ce \in [ScoredTexts -> Logits] :
          /\ req' = [NoCall EXCEPT !.api = "score_batch", !.pairs = pairs,
                                   !.batch_size = batch_size, !.ce = ce]
          /\ reranker' =
                [CrossEncoderReranker(TRUE) EXCEPT !.log =
                    @ \o [b \in 1..Len(Batches(pairs, batch_size)) |->
                             "forward"]]
          /\ results' = score_batch(pairs, batch_size, ce)
    /\ pc' = "done"
    /\ UNCHANGED << service, hs_top_k, keyword_weight, vector_weight,
                    dense_limit, index_at_call, bm25_scores, top_indices,
                    vector_results, bm25_results, combined_results,
                    hybrid_results, reranked, candidates, response, error >>

NextRerank ==
    \/ RerankCall
    \/ RerankAgain
    \/ DummyRerankCall
    \/ ScoreBatchCall
    \/ Finish

SpecRerank == Init /\ [][NextRerank]_vars

(* ------------------------------ claims -------------------------------- *)

Min2(a, b) == IF a < b THEN a ELSE b

Route == req.api = "reranked_search"

Direct == req.api = "hybrid_search"

\* C1 as stated: the reranked-search pipeline with top_k = K and
\* candidates_multiplier = M requests exactly K * M candidates from the Dense
\* Retriever and cuts the lexical path to K * M candidates.
C1_RequestsKM ==
    (Route /\ pc \in {"await", "done"}) =>
        /\ dense_limit = req.top_k * req.candidates_multiplier
        /\ Len(top_indices) <= req.top_k * req.candidates_multiplier

\* C1 amended: reranked_search calls hybrid_search with top_k = K * M, and
\* hybrid_search with top_k = T asks the Dense Retriever for exactly 2 * T
\* candidates (2 * K * M for the route) and cuts the lexical path to the
\* 2 * T best-scored indexed documents; the route's own service has no
\* lexical index, so its lexical path is empty.
C1_RequestsTwiceKM ==
    /\ (Route /\ pc \in {"await", "done"}) =>
          /\ hs_top_k = req.top_k * req.candidates_multiplier
          /\ dense_limit = 2 * req.top_k * req.candidates_multiplier
    /\ (Direct /\ pc \in {"await", "done"}) =>
          /\ hs_top_k = req.top_k
          /\ dense_limit = 2 * req.top_k
    /\ pc = "done" =>
          /\ Len(vector_results) = Min2(dense_limit, Len(Points))
          /\ Len(top_indices) =
                IF Route \/ bm25_index = None THEN 0
                ELSE Min2(2 * hs_top_k, Len(bm25_index))

\* C1 witness: the route answered a request with K = 2, M = 2 after asking
\* the retriever for 8 candidates
C1_Witness ==
    /\ pc = "done" /\ Route
    /\ req.top_k = 2 /\ req.candidates_multiplier = 2
    /\ dense_limit = 8

\* the merged candidates that pass the caller's metadata filters
Surviving ==
    {i \in 1..Len(combined_results) :
        \A k \in DOMAIN req.metadata_filters :
            Get(combined_results[i].metadata, k) = req.metadata_filters[k]}

\* C2: the output length is min(top_k, number of merged candidates that pass
\* the metadata filters), on the rerank path and on the truncation path.
C2_TopKContract ==
    pc = "done" => Len(results) = Min2(req.top_k, Cardinality(Surviving))

\* C2 witness: the reranker ran and top_k cut surviving candidates off
C2_Witness ==
    /\ pc = "done" /\ reranked
    /\ Len(results) = req.top_k
    /\ Cardinality(Surviving) > req.top_k

\* C3: no two candidates of the merged output of _combine_results have the
\* same text.
C3_DistinctTexts ==
    \A i, j \in 1..Len(combined_results) :
        combined_results[i].text = combined_results[j].text => i = j

\* C3 witness: a merge of a dense batch that repeats a text and a lexical
\* batch that repeats a text
C3_Witness ==
    /\ pc = "done"
    /\ \E i, j \in 1..Len(vector_results) :
          i # j /\ vector_results[i].text = vector_results[j].text
    /\ \E i, j \in 1..Len(bm25_results) :
          i # j /\ bm25_results[i].text = bm25_results[j].text
    /\ Len(combined_results) = 3

TextsOf(rs) == {rs[i].text : i \in 1..Len(rs)}

\* the first record of rs with text t, and the last
FirstOf(rs, t) == rs[Min({i \in 1..Len(rs) : rs[i].text = t})]

LastOf(rs, t) == rs[Max({i \in 1..Len(rs) : rs[i].text = t})]

\* C4: every text of the dense or of the lexical input is in the merged
\* output; a dense-only candidate has bm25_score 0.0, a lexical-only one
\* vector_score 0.0, one in both the normalized score of each side.
C4_MergeComplete ==
    pc = "done" =>
        \A t \in TextsOf(vector_results) \cup TextsOf(bm25_results) :
            \E i \in 1..Len(combined_results) :
                /\ combined_results[i].text = t
                /\ combined_results[i].vector_score =
                      IF t \in TextsOf(vector_results)
                      THEN FirstOf(vector_results, t).normalized_vector_score
                      ELSE 0
                /\ combined_results[i].bm25_score =
                      IF t \in TextsOf(bm25_results)
                      THEN LastOf(bm25_results, t).normalized_bm25_score
                      ELSE 0

\* C4 witness: a merge with a dense-only text, a lexical-only text and a
\* text of both sides whose two scores are neither 0 nor 1
C4_Witness ==
    /\ pc = "done"
    /\ TextsOf(vector_results) \ TextsOf(bm25_results) # {}
    /\ TextsOf(bm25_results) \ TextsOf(vector_results) # {}
    /\ \E i \in 1..Len(combined_results) :
          /\ combined_results[i].text \in
                TextsOf(vector_results) \cap TextsOf(bm25_results)
          /\ combined_results[i].vector_score \notin {0, One}
          /\ combined_results[i].bm25_score \notin {0, One}

\* C5: with metadata_filters given, every returned candidate has every
\* filter key in its metadata, with the filter's value.
C5_FilterCorrect ==
    pc = "done" =>
        \A i \in 1..Len(results) :
            \A k \in DOMAIN req.metadata_filters :
                /\ k \in DOMAIN results[i].metadata
                /\ results[i].metadata[k] = req.metadata_filters[k]

ActiveScore(r) ==
    IF reranked THEN r.cross_encoder_score ELSE r.hybrid_score

\* C6: the output is in descending order of the active score, hybrid_score
\* when no reranking ran and cross_encoder_score after reranking.
C6_Descending ==
    pc = "done" =>
        \A i, j \in 1..Len(results) :
            i < j => ActiveScore(results[i]) >= ActiveScore(results[j])

\* C6 witness: the reranker ran and inverted the hybrid order
C6_Witness ==
    /\ pc = "done" /\ reranked
    /\ Len(results) = 2
    /\ results[1].cross_encoder_score > results[2].cross_encoder_score
    /\ results[1].hybrid_score < results[2].hybrid_score

\* C7: every normalized vector_score and every normalized bm25_score that
\* _combine_results produces lies in [0, 1].
C7_NormalizedInUnit ==
    /\ \A i \in 1..Len(vector_results) :
          /\ vector_results[i].normalized_vector_score >= 0
          /\ vector_results[i].normalized_vector_score <= One
    /\ \A i \in 1..Len(bm25_results) :
          /\ bm25_results[i].normalized_bm25_score >= 0
          /\ bm25_results[i].normalized_bm25_score <= One

\* C7 witness: both batches hold a normalized score strictly inside (0, 1)
\* and the dense batch has a negative raw score
C7_Witness ==
    /\ pc = "done"
    /\ \E i \in 1..Len(vector_results) :
          /\ vector_results[i].normalized_vector_score > 0
          /\ vector_results[i].normalized_vector_score < One
    /\ \E i \in 1..Len(vector_results) : vector_results[i].score < 0
    /\ \E i \in 1..Len(bm25_results) :
          /\ bm25_results[i].normalized_bm25_score > 0
          /\ bm25_results[i].normalized_bm25_score < One

AllEqual(rs, f) == \A i, j \in 1..Len(rs) : rs[i][f] = rs[j][f]

\* C8 as stated: when all raw scores of a batch are equal, every normalized
\* score is 1.0 for the dense list and 0.0 for the lexical list.
C8_EqualDenseOneLexicalZero ==
    pc = "done" =>
        /\ AllEqual(vector_results, "score") =>
              \A i \in 1..Len(vector_results) :
                  vector_results[i].normalized_vector_score = One
        /\ AllEqual(bm25_results, "bm25_score") =>
              \A i \in 1..Len(bm25_results) :
                  bm25_results[i].normalized_bm25_score = 0

\* C8 amended: when all raw scores of a batch are equal, every normalized
\* score of the batch is 1.0, for the dense list and for the lexical list
\* alike: a lexical batch holds only scores > 0, so its maximum is never 0.
C8_EqualScoresOne ==
    pc = "done" =>
        /\ AllEqual(vector_results, "score") =>
              \A i \in 1..Len(vector_results) :
                  vector_results[i].normalized_vector_score = One
        /\ AllEqual(bm25_results, "bm25_score") =>
              \A i \in 1..Len(bm25_results) :
                  /\ bm25_results[i].bm25_score > 0
                  /\ bm25_results[i].normalized_bm25_score = One

\* C8 witness: a dense batch of three equal scores and a lexical batch of
\* three equal scores
C8_Witness ==
    /\ pc = "done"
    /\ Len(vector_results) = 3 /\ AllEqual(vector_results, "score")
    /\ Len(bm25_results) = 3 /\ AllEqual(bm25_results, "bm25_score")

\* the quotients "Normalize weights" computes from the caller's weights
EffVector ==
    FDiv(req.vector_weight, FAdd(req.keyword_weight, req.vector_weight))

EffKeyword ==
    FDiv(req.keyword_weight, FAdd(req.keyword_weight, req.vector_weight))

\* C9 as stated: for non-negative weights not both zero, the effective
\* weights are vector_weight / total and keyword_weight / total, they sum to
\* exactly 1, and hybrid_score = vector_score * effective vector weight +
\* bm25_score * effective keyword weight.
C9_WeightsSumToOne ==
    pc \in {"await", "done"} =>
        /\ vector_weight = EffVector
        /\ keyword_weight = EffKeyword
        /\ vector_weight + keyword_weight = One
        /\ \A i \in 1..Len(combined_results) :
              combined_results[i].hybrid_score =
                  FAdd(FMul(combined_results[i].vector_score, EffVector),
                       FMul(combined_results[i].bm25_score, EffKeyword))

\* the machine epsilon, 2^(1 - MantBits)
Epsilon == (2 * One) \div MantLimit

\* C9 amended: the effective weights are the floating-point quotients
\* vector_weight / total and keyword_weight / total; their sum is 1 up to
\* rounding (within one machine epsilon), not always exactly 1; and
\* hybrid_score is vector_score * effective vector weight + bm25_score *
\* effective keyword weight in floating-point arithmetic.
C9_WeightsSumNearOne ==
    pc \in {"await", "done"} =>
        /\ vector_weight = EffVector
        /\ keyword_weight = EffKeyword
        /\ Abs(vector_weight + keyword_weight - One) <= Epsilon
        /\ \A i \in 1..Len(combined_results) :
              combined_results[i].hybrid_score =
                  FAdd(FMul(combined_results[i].vector_score, EffVector),
                       FMul(combined_results[i].bm25_score, EffKeyword))

\* C9 witness: weights whose quotients do not sum to 1, and a
\* merged candidate that both signals score
C9_Witness ==
    /\ pc = "done"
    /\ req.keyword_weight # 0 /\ req.vector_weight # 0
    /\ vector_weight + keyword_weight # One
    /\ \E i \in 1..Len(combined_results) :
          /\ combined_results[i].vector_score > 0
          /\ combined_results[i].bm25_score > 0
          /\ combined_results[i].hybrid_score > 0

\* C10: with keyword_weight and vector_weight both zero, hybrid_search raises
\* before the dense retrieval call and before the lexical index is read, and
\* returns no result list.
C10_ZeroWeightsRaise ==
    ((Direct \/ Route) /\ req.keyword_weight = 0 /\ req.vector_weight = 0) =>
        /\ pc = "error"
        /\ error # None
        /\ dense_limit = 0
        /\ vector_results = <<>> /\ bm25_results = <<>>
        /\ combined_results = <<>> /\ hybrid_results = <<>>
        /\ results = <<>>

\* C10 witness: a hybrid_search with both weights zero raised
\* ZeroDivisionError while the service had an index
C10_Witness ==
    /\ pc = "error" /\ error = "ZeroDivisionError"
    /\ Direct /\ req.top_k > 0
    /\ req.keyword_weight = 0 /\ req.vector_weight = 0
    /\ bm25_index # None

\* position in the dense batch of the first record with text t
DensePos(t) == Min({i \in 1..Len(vector_results) : vector_results[i].text = t})

\* C11: when the lexical index was never built and the dense retriever
\* returns a non-empty list, hybrid_search raises no error, every output
\* candidate has bm25_score = 0, every hybrid_score is the min-max-normalized
\* dense score times the effective vector weight, and the output is in the
\* order of the dense batch (best similarity first).  The only exception a
\* request then ends with is one its reranker raised, after hybrid_search
\* returned.
C11_DenseOnly ==
    (Index = None /\ vector_results # <<>>) =>
        /\ pc \in {"done", "error"}
        /\ error \in {None, reranker.raised}
        /\ bm25_results = <<>>
        /\ \A i \in 1..Len(hybrid_results) :
              /\ hybrid_results[i].text \in TextsOf(vector_results)
              /\ hybrid_results[i].bm25_score = 0
              /\ hybrid_results[i].hybrid_score =
                    FMul(vector_results[DensePos(hybrid_results[i].text)]
                             .normalized_vector_score,
                         EffVector)
        /\ \A i, j \in 1..Len(hybrid_results) :
              i < j =>
                  /\ DensePos(hybrid_results[i].text) <
                        DensePos(hybrid_results[j].text)
                  /\ vector_results[DensePos(hybrid_results[i].text)].score >=
                        vector_results[DensePos(hybrid_results[j].text)].score

\* C11 witness: a hybrid_search on a service without index returned two
\* candidates of different similarity, reweighted by a vector weight that
\* is neither 0 nor 1
C11_Witness ==
    /\ pc = "done" /\ Direct /\ bm25_index = None
    /\ Len(hybrid_results) = 2
    /\ vector_weight \notin {0, One}
    /\ hybrid_results[1].hybrid_score > hybrid_results[2].hybrid_score
    /\ hybrid_results[2].hybrid_score > 0
    /\ hybrid_results[1].bm25_score = 0

\* the route got the answer of hybrid_search and went through its step 3
AfterStep3 == Route /\ (pc = "done" \/ reranker.raised # None)

\* C12: in the reranked-search pipeline a reranker is constructed and
\* invoked, with the caller's top_k, if and only if use_reranker is true and
\* the merged list is non-empty; in every other case the merged list is
\* truncated to its first top_k entries and no reranker is constructed or
\* called.
C12_RerankIff ==
    AfterStep3 =>
        LET wanted == req.use_reranker /\ hybrid_results # <<>>
        IN  /\ (reranker.log # <<>>) <=> wanted
            /\ pc = "done" =>
                  /\ reranked <=> wanted
                  /\ reranked =>
                        /\ \E i \in 1..Len(reranker.log) :
                              reranker.log[i] = "rerank"
                        /\ Len(results) = Min2(req.top_k, Len(hybrid_results))
                        /\ \A i \in 1..Len(results) :
                              /\ "cross_encoder_score" \in DOMAIN results[i]
                              /\ results[i].text \in TextsOf(hybrid_results)
                  /\ ~reranked =>
                        /\ reranker = NoReranker
                        /\ results = Slice(hybrid_results, req.top_k)

\* C12 witness: the route reranked a merged list of two candidates down to
\* the caller's top_k = 1
C12_Witness ==
    /\ pc = "done" /\ Route /\ reranked
    /\ req.top_k = 1
    /\ Len(hybrid_results) = 2
    /\ Len(results) = 1
    /\ reranker.log = << "__init__", "load", "rerank", "forward" >>

\* C13: when the reranker is disabled, or is unavailable because its scoring
\* model cannot be constructed or loaded, the reranked-search pipeline does
\* not fail: it returns the first top_k merged candidates in hybrid_score
\* order.
C13_FallbackTruncation ==
    (AfterStep3 /\ (~req.use_reranker \/ reranker.raised # None)) =>
        /\ pc = "done" /\ error = None
        /\ results = Slice(hybrid_results, req.top_k)
        /\ \A i, j \in 1..Len(results) :
              i < j => results[i].hybrid_score >= results[j].hybrid_score

\* positions of the event e in the log of the request's reranker
LogPos(e) == {i \in 1..Len(reranker.log) : reranker.log[i] = e}

\* C14: constructing a CrossEncoderReranker does not load the tokenizer or
\* the model: the load happens at the first scoring call (a rerank over a
\* non-empty list) and never before it, and a reranker that is never asked
\* to score never loads the model.
C14_LoadAtFirstScoring ==
    /\ \A i \in LogPos("load") : \E j \in LogPos("rerank") : j < i
    /\ LogPos("forward") = {} =>
          /\ LogPos("load") = {}
          /\ reranker.tokenizer = None /\ reranker.model = None

\* a direct call of CrossEncoderReranker.rerank has returned
Reranking == pc = "done" /\ req.api = "rerank"

\* the model's score of the pair of the i-th candidate given
PairScore(i) == Sigmoid(req.ce[GetOr(req.results[i], "text", "")])

\* C15: rerank(query, candidates, top_k) on a non-empty list scores the
\* (query, text) pair of every candidate, and returns exactly the
\* min(top_k, n) input candidates with the highest cross_encoder_score, in
\* descending score order; every returned element is one of the input
\* candidates and none is returned twice.
C15_RerankTopScored ==
    (Reranking /\ req.results # <<>>) =>
        LET n == Len(req.results)
        IN  /\ Len(candidates) = n
            /\ \A j \in 1..n :
                  candidates[j] =
                      [cross_encoder_score |-> PairScore(j)] @@ req.results[j]
            /\ LogPos("forward") # {}
            /\ Len(results) = Min2(req.top_k, n)
            /\ \A i \in 1..Len(results) :
                  \E j \in 1..n : results[i] = candidates[j]
            /\ \A i, k \in 1..Len(results) :
                  results[i].chunk_id = results[k].chunk_id => i = k
            /\ \A i, k \in 1..Len(results) :
                  i < k => results[i].cross_encoder_score >=
                              results[k].cross_encoder_score
            /\ \A j \in 1..n :
                  (\A i \in 1..Len(results) :
                      results[i].chunk_id # candidates[j].chunk_id) =>
                  \A i \in 1..Len(results) :
                      results[i].cross_encoder_score >= PairScore(j)

\* C15 witness: of three candidates the two best-scored came back, and the
\* one given first was not among them
C15_Witness ==
    /\ Reranking
    /\ Len(req.results) = 3 /\ req.top_k = 2 /\ Len(results) = 2
    /\ results[1].chunk_id = req.results[2].chunk_id
    /\ results[2].chunk_id = req.results[3].chunk_id
    /\ PairScore(1) < PairScore(3)

\* C16: rerank with an empty candidate list returns an empty list and makes
\* no call to the scoring model: neither the tokenizer nor the model is
\* invoked.
C16_EmptyNoScoring ==
    (Reranking /\ req.results = <<>>) =>
        /\ results = <<>>
        /\ candidates = <<>>
        /\ LogPos("forward") = {}

\* C16 witness: a loaded reranker was asked to rerank an empty list with
\* top_k = 2
C16_Witness ==
    /\ Reranking
    /\ req.results = <<>> /\ req.top_k = 2
    /\ reranker.model # None
    /\ reranker.log = << "__init__", "load", "rerank" >>

\* a direct call of CrossEncoderReranker._score_batch has returned
Scoring == pc = "done" /\ req.api = "score_batch"

\* C17: for a scoring model that is a function of the single (query, text)
\* pair, _score_batch returns for every batch_size >= 1 exactly one score per
\* input pair, in input order, equal to that pair's score; so the scores and
\* the ranking by them are with batch size 1 what they are with batch
\* size 32.
C17_BatchInvariant ==
    Scoring =>
        /\ req.batch_size >= 1
        /\ Len(results) = Len(req.pairs)
        /\ \A i \in 1..Len(req.pairs) : results[i] = Sigmoid(req.ce[req.pairs[i]])
        /\ results = score_batch(req.pairs, 1, req.ce)
        /\ results = score_batch(req.pairs, DefaultBatchSize, req.ce)
        /\ SortedDesc(results, Len(results)) =
              SortedDesc(score_batch(req.pairs, 1, req.ce), Len(req.pairs))

\* C17 witness: three pairs of different scores went through the model in
\* two batches, of two pairs and of one
C17_Witness ==
    /\ Scoring
    /\ req.batch_size = 2 /\ Len(req.pairs) = 3
    /\ Cardinality(LogPos("forward")) = 2
    /\ results[1] < results[3]
    /\ results[2] # results[3]

\* a call of DummyReranker.rerank has returned
PassedThrough == pc = "done" /\ req.api = "dummy_rerank"

\* C18: DummyReranker.rerank returns the first min(top_k, n) candidates of
\* its input in their input order, with every candidate record unchanged (no
\* field added, removed or modified), and the input list itself is unchanged.
C18_DummyPassThrough ==
    PassedThrough =>
        /\ Len(results) = Min2(req.top_k, Len(req.results))
        /\ \A i \in 1..Len(results) :
              /\ results[i] = req.results[i]
              /\ DOMAIN results[i] = DOMAIN req.results[i]
        /\ candidates = req.results

\* C18 witness: of three candidates, not in hybrid_score order, the first
\* two came back
C18_Witness ==
    /\ PassedThrough
    /\ Len(req.results) = 3 /\ req.top_k = 2 /\ Len(results) = 2
    /\ results[1].hybrid_score < results[2].hybrid_score
    /\ results[1].chunk_id = req.results[1].chunk_id

\* C19: a candidate record whose text is missing (absent or null) is
\* excluded from the merge and from rerank scoring, while the remaining
\* candidates of the same batch are still scored and returned; the call does
\* not fail because of it.
C19_MissingTextExcluded ==
    (Route /\ \E i \in 1..Len(vector_results) : vector_results[i].text = None)
    =>
        /\ \A i \in 1..Len(combined_results) : combined_results[i].text # None
        /\ error \notin {"TypeError", "ValidationError"}
        /\ pc = "done" =>
              /\ \A i \in 1..Len(results) : results[i].text # None
              /\ Len(results) =
                    Min2(req.top_k,
                         Cardinality({i \in Surviving :
                                         combined_results[i].text # None}))
              /\ reranked =>
                    \A i \in 1..Len(results) :
                        "cross_encoder_score" \in DOMAIN results[i]

\* the request was refused by the validation of RerankedSearchRequest
Refused == pc = "error" /\ error = "ValidationError" /\ hs_top_k = 0

\* C20 as stated: the reranked-search request accepts every integer
\* candidates_multiplier >= 1 (including 1, where num_candidates = top_k) and
\* uses 3 when none is given.
C20_AcceptsFromOne ==
    (Route /\ req.top_k >= TopKMin) =>
        /\ req.candidates_multiplier >= 1 =>
              /\ ~Refused
              /\ hs_top_k = req.top_k * req.candidates_multiplier
        /\ ~req.multiplier_given => req.candidates_multiplier = 3

\* C20 amended: the reranked-search request accepts the integers
\* candidates_multiplier from 2 to 10 and refuses every other one, 1
\* included, with a validation error before anything is retrieved; it uses 3
\* when none is given; num_candidates = top_k * candidates_multiplier.
C20_AcceptsTwoToTen ==
    (Route /\ req.top_k >= TopKMin) =>
        /\ Refused <=> req.candidates_multiplier \notin 2..10
        /\ ~Refused => hs_top_k = req.top_k * req.candidates_multiplier
        /\ Refused => dense_limit = 0 /\ vector_results = <<>> /\ results = <<>>
        /\ ~req.multiplier_given => req.candidates_multiplier = 3

\* C20 witness: a request with top_k = 2 and no candidates_multiplier was
\* answered from 3 * 2 merged candidates asked of hybrid_search
C20_Witness ==
    /\ Route /\ pc = "done"
    /\ ~req.multiplier_given
    /\ req.top_k = 2 /\ hs_top_k = 6
    /\ Len(results) = 2

\* C21: a pipeline call with top_k <= 0 fails with an error (it is rejected
\* as invalid configuration) instead of returning a result list, for the
\* request schemas and for a direct call of hybrid_search.
C21_NonPositiveTopKFails ==
    ((Direct \/ Route) /\ req.top_k <= 0) =>
        /\ pc # "done"
        /\ pc = "error" => error # None /\ results = <<>>

\* C22: every candidate of the reranked-search output carries vector_score,
\* bm25_score and hybrid_score; cross_encoder_score is present (not null),
\* with a value in [0, 1], exactly when the reranker ran for the request,
\* and is null otherwise, in which case the reported score is the
\* hybrid_score.
C22_OutputScores ==
    (Route /\ pc = "done") =>
        /\ Len(response) = Len(results)
        /\ \A i \in 1..Len(response) :
              LET m == response[i].metadata
              IN  /\ {"vector_score", "bm25_score", "hybrid_score",
                      "cross_encoder_score"} \subseteq DOMAIN m
                  /\ m.vector_score = results[i].vector_score
                  /\ m.bm25_score = results[i].bm25_score
                  /\ m.hybrid_score = results[i].hybrid_score
                  /\ IF reranked
                     THEN /\ m.cross_encoder_score >= 0
                          /\ m.cross_encoder_score <= One
                          /\ response[i].score = m.cross_encoder_score
                     ELSE /\ m.cross_encoder_score = None
                          /\ response[i].score = m.hybrid_score

\* C22 witness: a reranked response of two candidates whose reported score
\* is not the hybrid_score
C22_Witness ==
    /\ Route /\ pc = "done" /\ reranked
    /\ Len(response) = 2
    /\ response[1].score # response[1].metadata.hybrid_score
    /\ response[1].score > response[2].score
    /\ response[2].score > 0 /\ response[1].score < One


\* position in rs of the first record with text t
PosIn(rs, t) == Min({i \in 1..Len(rs) : rs[i].text = t})

\* C23: candidates of equal active score come out in their retrieval order.
\* In hybrid_search the merged list holds the dense results in the
\* retriever's order followed by the lexical-only hits in lexical rank
\* order, and candidates of equal hybrid_score keep that order; in rerank
\* candidates of equal cross_encoder_score keep their incoming order.
\* Identifiers play no part in the order.
C23_TiesKeepOrder ==
    (pc = "done" /\ (Direct \/ Route)) =>
        /\ \A i, j \in 1..Len(combined_results) :
              i < j =>
                  LET a == combined_results[i].text
                      b == combined_results[j].text
                      D == TextsOf(vector_results)
                  IN  \/ a \in D /\ b \in D /\ DensePos(a) < DensePos(b)
                      \/ a \in D /\ b \notin D
                      \/ /\ a \notin D /\ b \notin D
                         /\ PosIn(bm25_results, a) < PosIn(bm25_results, b)
        /\ \A i, j \in 1..Len(hybrid_results) :
              (i < j /\ hybrid_results[i].hybrid_score =
                           hybrid_results[j].hybrid_score) =>
                  PosIn(combined_results, hybrid_results[i].text) <
                      PosIn(combined_results, hybrid_results[j].text)
        /\ reranked =>
              \A i, j \in 1..Len(results) :
                  (i < j /\ results[i].cross_encoder_score =
                               results[j].cross_encoder_score) =>
                      PosIn(hybrid_results, results[i].text) <
                          PosIn(hybrid_results, results[j].text)

\* C23 witness: the retriever ranked chunk c3 before chunk c1, the two tied
\* on hybrid_score and again on cross_encoder_score, and c3 came out first
C23_Witness ==
    /\ pc = "done" /\ Route /\ reranked
    /\ Len(results) = 2
    /\ vector_results[1].chunk_id = "c3"
    /\ hybrid_results[1].hybrid_score = hybrid_results[2].hybrid_score
    /\ results[1].cross_encoder_score = results[2].cross_encoder_score
    /\ results[1].chunk_id = "c3"
    /\ results[2].chunk_id = "c1"

\* C23 witness of the direct call: a dense candidate and a lexical-only hit
\* tied on hybrid_score, the dense one first
C23_WitnessLexical ==
    /\ pc = "done" /\ Direct
    /\ Len(results) = 2
    /\ results[1].hybrid_score = results[2].hybrid_score
    /\ results[1].hybrid_score > 0
    /\ results[1].text \in TextsOf(vector_results)
    /\ results[2].text \notin TextsOf(vector_results)


\* a direct hybrid_search on a service with a lexical index has returned
LexicalDone == pc = "done" /\ Direct /\ bm25_index # None

\* the top indices whose raw score is positive, in their order
KeptIndices ==
    Select(top_indices, {d \in 1..Len(bm25_scores) : bm25_scores[d] > 0})

\* C24: the lexical result list is in descending raw score and holds exactly
\* the documents of raw score > 0 among the 2 * top_k top-ranked ones: no
\* document of score <= 0 is a lexical candidate, and no document of
\* positive score is left out while one of lower score is in.
C24_LexicalPositiveTop ==
    LexicalDone =>
        LET n == Len(bm25_scores)
        IN  /\ n = Len(bm25_documents)
            /\ Len(top_indices) = Min2(n, 2 * hs_top_k)
            /\ \A p, q \in 1..Len(top_indices) :
                  /\ top_indices[p] \in 1..n
                  /\ top_indices[p] = top_indices[q] => p = q
            /\ \A d \in (1..n) \ Range(top_indices) :
                  \A p \in 1..Len(top_indices) :
                      bm25_scores[top_indices[p]] >= bm25_scores[d]
            /\ Len(bm25_results) = Len(KeptIndices)
            /\ \A i \in 1..Len(bm25_results) :
                  /\ bm25_results[i].text = bm25_documents[KeptIndices[i]]
                  /\ bm25_results[i].metadata = bm25_metadata[KeptIndices[i]]
                  /\ bm25_results[i].bm25_score = bm25_scores[KeptIndices[i]]
                  /\ bm25_results[i].bm25_score > 0
            /\ \A i, j \in 1..Len(bm25_results) :
                  i < j => bm25_results[i].bm25_score >=
                              bm25_results[j].bm25_score
            /\ \A d \in (1..n) \ Range(KeptIndices) :
                  \/ bm25_scores[d] <= 0
                  \/ \A i \in 1..Len(bm25_results) :
                        bm25_results[i].bm25_score >= bm25_scores[d]

\* C24 witness: of three documents of positive score the two top-ranked
\* are the lexical results, the second document of the corpus first
C24_Witness ==
    /\ LexicalDone
    /\ Len(bm25_scores) = 3
    /\ \A d \in 1..3 : bm25_scores[d] > 0
    /\ Len(bm25_results) = 2
    /\ bm25_results[1].text = bm25_documents[2]
    /\ bm25_results[1].bm25_score > bm25_results[2].bm25_score

\* C24 witness of the score test: a document of score 0 is among the
\* top-ranked and is no lexical result
C24_WitnessZero ==
    /\ LexicalDone
    /\ Len(top_indices) = 2
    /\ bm25_scores[top_indices[2]] = 0
    /\ Len(bm25_results) = 1


\* C25: hybrid_search changes neither bm25_index nor bm25_documents nor
\* bm25_metadata, the metadata records included: every step of a call leaves
\* the three as the last index_for_bm25 set them.
C25_SearchLeavesIndex ==
    [][(pc' # pc) => service' = service]_vars

\* C25 witness: a hybrid_search on an indexed service returned a lexical-only
\* hit that carries a metadata record of the index
C25_Witness ==
    /\ LexicalDone
    /\ \E i \in 1..Len(results) :
          /\ results[i].chunk_id = None
          /\ results[i].metadata = bm25_metadata[1]
          /\ results[i].text = bm25_documents[1]


\* the second of two calls of rerank with the same arguments has returned
RerankedAgain == pc = "done" /\ req.api = "rerank_again"

\* C26: rerank called again on the same reranker with the same query and
\* the same candidate list gives every candidate the same
\* cross_encoder_score and returns the same list in the same order; the
\* scores are those of the pairs whatever the batch size, and owe nothing to
\* what the first call left in the reranker or in the candidates.
C26_RerankRepeatable ==
    RerankedAgain =>
        /\ results = req.previous
        /\ Len(candidates) = Len(req.results)
        /\ \A j \in 1..Len(candidates) :
              candidates[j] =
                  [cross_encoder_score |-> PairScore(j)] @@ req.results[j]
        /\ \A b \in BatchSizes :
              score_batch([j \in 1..Len(req.results) |->
                              GetOr(req.results[j], "text", "")],
                          b, req.ce)
                  = [j \in 1..Len(candidates) |->
                        candidates[j].cross_encoder_score]

\* C26 witness: the second call scored three candidates again, two of them
\* differently, and returned the two the first call returned, not in the
\* order given
C26_Witness ==
    /\ RerankedAgain
    /\ Len(candidates) = 3 /\ Len(results) = 2
    /\ Cardinality(LogPos("rerank")) = 2
    /\ Cardinality(LogPos("forward")) = 2
    /\ results[1].cross_encoder_score > results[2].cross_encoder_score
    /\ results[1].chunk_id # candidates[1].chunk_id
    /\ results = req.previous


\* C27: the reranker is never invoked with more than
\* top_k * candidates_multiplier candidates: the merged list handed to
\* rerank, and so the list of pairs scored, has at most num_candidates
\* entries.
C27_RerankerInputBound ==
    (Route /\ reranked) =>
        /\ hybrid_results # <<>>
        /\ Len(hybrid_results) <= req.top_k * req.candidates_multiplier
        /\ Len(hybrid_results) <= hs_top_k
        /\ pc = "done" => \A i \in 1..Len(results) :
              \E j \in 1..Len(hybrid_results) :
                  results[i] = [cross_encoder_score |->
                                    results[i].cross_encoder_score]
                               @@ hybrid_results[j]

\* C27 witness: the merge made three candidates, num_candidates is 2, and
\* the reranker was given two
C27_Witness ==
    /\ Route /\ reranked /\ pc = "done"
    /\ req.top_k * req.candidates_multiplier = 2
    /\ Len(combined_results) = 3
    /\ Len(hybrid_results) = 2
    /\ Len(results) = 1


\* candidate a of the merged list has at least the two scores of candidate b
Dominates(a, b) ==
    a.vector_score >= b.vector_score /\ a.bm25_score >= b.bm25_score

C29_FirstDenseWins ==
    (pc = "done" /\ (Direct \/ Route)) =>
        \A t \in TextsOf(vector_results) :
            LET first == FirstOf(vector_results, t)
                S == {i \in 1..Len(combined_results) :
                         combined_results[i].text = t}
            IN  /\ Cardinality(S) = 1
                /\ \A i \in S :
                      /\ combined_results[i].chunk_id = first.chunk_id
                      /\ combined_results[i].document_id = first.document_id
                      /\ combined_results[i].metadata = first.metadata
                      /\ combined_results[i].vector_score =
                            first.normalized_vector_score
                      /\ combined_results[i].bm25_score =
                            IF t \in TextsOf(bm25_results)
                            THEN LastOf(bm25_results, t).normalized_bm25_score
                            ELSE 0

\* C29 witness: the retriever returned chunk c2 before chunk c1 of the same
\* text with different similarities, the index has a document of that text
\* under other metadata, and the candidate is c2's with the hit's bm25_score
C29_Witness ==
    /\ pc = "done" /\ Direct
    /\ \E i, j \in 1..Len(vector_results) :
          /\ i < j
          /\ vector_results[i].chunk_id = "c2"
          /\ vector_results[j].chunk_id = "c1"
          /\ vector_results[i].normalized_vector_score >
                vector_results[j].normalized_vector_score
    /\ \E k \in 1..Len(bm25_results) :
          /\ bm25_results[k].text = "a"
          /\ bm25_results[k].metadata # Points[2].metadata
    /\ \E i \in 1..Len(combined_results) :
          /\ combined_results[i].text = "a"
          /\ combined_results[i].chunk_id = "c2"
          /\ combined_results[i].document_id = "d2"
          /\ combined_results[i].metadata = Points[2].metadata
          /\ combined_results[i].bm25_score > 0


\* the service holds the index, the documents and the metadata of one build
OneBuild ==
    \E c \in Corpora :
        /\ bm25_index = c.documents
        /\ bm25_documents = c.documents
        /\ bm25_metadata = c.metadata

\* C30: when index_for_bm25 runs while a hybrid_search awaits the retriever,
\* the resumed query reads the index, the document list and the metadata
\* list of one build: every index it dereferences is in range of the three,
\* and the text and the metadata of each lexical hit are those of the
\* document scored.
C30_ConsistentSnapshot ==
    /\ bm25_index # None => OneBuild
    /\ LexicalDone =>
          /\ Len(bm25_scores) = Len(bm25_index)
          /\ \A p \in 1..Len(top_indices) :
                /\ top_indices[p] \in 1..Len(bm25_index)
                /\ top_indices[p] \in 1..Len(bm25_documents)
                /\ top_indices[p] \in 1..Len(bm25_metadata)
          /\ Len(bm25_results) = Len(KeptIndices)
          /\ \A i \in 1..Len(bm25_results) :
                \E c \in Corpora :
                    /\ bm25_index = c.documents
                    /\ bm25_results[i].text = c.documents[KeptIndices[i]]
                    /\ bm25_results[i].metadata = c.metadata[KeptIndices[i]]

\* C30 witness: the index was rebuilt from another corpus while the query
\* awaited, and the query returned hits of the new build
C30_Witness ==
    /\ LexicalDone
    /\ index_at_call # None
    /\ index_at_call # bm25_index
    /\ Len(bm25_index) = 1
    /\ Len(bm25_results) = 1
    /\ bm25_results[1].text = "a"
    /\ bm25_results[1].metadata = bm25_metadata[1]

====
